---- MODULE Spec2Model ----
\* Scene persistence of foxtrot (src/src/world_serialization.rs): the save_world and
\* load_world systems, the save-path probing, the parent resolution of
\* serialize_world and the RON text written to and read from assets/scenes.
EXTENDS Integers, Sequences, FiniteSets, TLC

VARIABLES
    files,          \* assets/scenes: path -> text of the file (DOMAIN = existing files)
    untestable,     \* the paths for which fs::try_exists fails
    world,          \* live entities: id -> [tracker, name, parent, transform]
    order,          \* the iteration order of the queries over the live entities
    save_requests,  \* unread SaveRequest events
    load_requests,  \* unread LoadRequest events
    effects,        \* instructions issued in this step, in program order:
                    \* queued despawn_recursive commands and sent SpawnEvents
    log,            \* the reports (error! / info!) written in this step
    crashed,        \* TRUE once a system has panicked
    phase,          \* "idle" between processing steps, "run" inside one
    sent            \* number of requests sent so far

vars == <<files, untestable, world, order, save_requests, load_requests, effects, log, crashed, phase, sent>>

-----------------------------------------------------------------------------
\* Bounds of the model.

\* Requests sent in one behaviour.
MaxRequests == 2
\* Entities of the generated scenes (SpecCodec).
MaxEntities == 2
\* Saves of one name in a row (SpecRepeat).
MaxRepeat == 11

\* .take(10): the number of candidate paths probed by one save.
PROBE_LIMIT == 10

-----------------------------------------------------------------------------
\* Option<T> as a sequence of length at most one.

None == <<>>
Some(x) == <<x>>

\* GameObject variants (crate::spawning) and the default name of a kind.
Kinds == {"Grass", "Doorway"}
get_default_name(kind) == kind

\* Names an entity can carry. "Grass" is the default name of kind Grass only.
NameStrings == {"Grass", "Level"}

\* Transform values; Transform::default() is the identity.
TransformDefault == "Identity"
Transforms == {"Identity", "Translate010"}

-----------------------------------------------------------------------------
\* File names and paths. A name is a sequence of pieces of text.

Digit == <<"0", "1", "2", "3", "4", "5", "6", "7", "8", "9">>

\* format!("{n}") of a natural number: its decimal digits.
RECURSIVE Decimal(_)
Decimal(n) == IF n < 10 THEN <<Digit[n + 1]>>
              ELSE Decimal(n \div 10) \o <<Digit[(n % 10) + 1]>>

\* CandidateName with a numbered first candidate: scene-0, scene-1, ...
CandidateName_numbered_first(scene, k) == scene \o <<"-">> \o Decimal(k - 1)

\* The k-th candidate file name (k = 1, 2, ...): scene, scene-1, scene-2, ...
CandidateName(scene, k) == IF k = 1 THEN scene ELSE scene \o <<"-">> \o Decimal(k - 1)

\* Path::new("assets").join("scenes").join(format!("{filename}.scn.ron"))
ScenePath(filename) == <<"assets", "scenes">> \o filename \o <<".scn.ron">>

CandidatePath(scene, k) == ScenePath(CandidateName(scene, k))

\* The request names of the model: "room" and "room-1" (the latter is also the
\* second candidate of the former).
SceneNames == {<<"room">>, <<"room", "-", "1">>}

-----------------------------------------------------------------------------
\* The RON text of a Vec<SpawnEvent>, as a sequence of tokens.

Quote(s) == "\"" \o s \o "\""

TransformText(t) ==
    IF t = "Identity"
    THEN "(translation:(0.0,0.0,0.0),rotation:(0.0,0.0,0.0,1.0),scale:(1.0,1.0,1.0))"
    ELSE "(translation:(0.0,1.0,0.0),rotation:(0.0,0.0,0.0,1.0),scale:(1.0,1.0,1.0))"

RonOption(o) == IF o = None THEN <<"None">> ELSE <<"Some", "(", Quote(o[1]), ")">>

RonEvent(ev) ==
    <<"(", "object:", ev.object, ",", "transform:", TransformText(ev.transform), ",", "name:">>
    \o RonOption(ev.name) \o <<",", "parent:">> \o RonOption(ev.parent) \o <<")">>

RECURSIVE RonEvents(_)
RonEvents(evs) ==
    IF evs = <<>> THEN <<>>
    ELSE IF Len(evs) = 1 THEN RonEvent(evs[1])
    ELSE RonEvent(evs[1]) \o <<",">> \o RonEvents(Tail(evs))

\* ron::to_string(&objects)
ron_to_string(evs) == <<"[">> \o RonEvents(evs) \o <<"]">>

\* Parsing. A parse result is [ok, val, next]: next is the index of the first
\* token not consumed.
Fail == [ok |-> FALSE, val |-> None, next |-> 0]
Tok(text, i) == IF i >= 1 /\ i <= Len(text) THEN text[i] ELSE "<eof>"

ParseString(text, i) ==
    IF \E s \in NameStrings : Quote(s) = Tok(text, i)
    THEN [ok |-> TRUE, val |-> CHOOSE s \in NameStrings : Quote(s) = Tok(text, i), next |-> i + 1]
    ELSE Fail

ParseOption(text, i) ==
    IF Tok(text, i) = "None" THEN [ok |-> TRUE, val |-> None, next |-> i + 1]
    ELSE IF Tok(text, i) = "Some" /\ Tok(text, i + 1) = "(" /\ ParseString(text, i + 2).ok
                                  /\ Tok(text, i + 3) = ")"
         THEN [ok |-> TRUE, val |-> Some(ParseString(text, i + 2).val), next |-> i + 4]
         ELSE Fail

ParseEvent(text, i) ==
    IF /\ Tok(text, i) = "("
       /\ Tok(text, i + 1) = "object:"
       /\ Tok(text, i + 2) \in Kinds
       /\ Tok(text, i + 3) = ","
       /\ Tok(text, i + 4) = "transform:"
       /\ \E t \in Transforms : TransformText(t) = Tok(text, i + 5)
       /\ Tok(text, i + 6) = ","
       /\ Tok(text, i + 7) = "name:"
       /\ ParseOption(text, i + 8).ok
    THEN LET nm == ParseOption(text, i + 8)
             j  == nm.next
         IN IF /\ Tok(text, j) = ","
               /\ Tok(text, j + 1) = "parent:"
               /\ ParseOption(text, j + 2).ok
               /\ Tok(text, ParseOption(text, j + 2).next) = ")"
            THEN [ok   |-> TRUE,
                  val  |-> [object    |-> Tok(text, i + 2),
                            transform |-> CHOOSE t \in Transforms :
                                              TransformText(t) = Tok(text, i + 5),
                            name      |-> nm.val,
                            parent    |-> ParseOption(text, j + 2).val],
                  next |-> ParseOption(text, j + 2).next + 1]
            ELSE Fail
    ELSE Fail

\* The events from token i on, up to the closing "]", which must be the last token.
RECURSIVE ParseEvents(_, _, _)
ParseEvents(text, i, acc) ==
    LET ev == ParseEvent(text, i)
    IN IF ~ev.ok THEN Fail
       ELSE IF Tok(text, ev.next) = "]" /\ ev.next = Len(text)
            THEN [ok |-> TRUE, val |-> Append(acc, ev.val), next |-> ev.next + 1]
       ELSE IF Tok(text, ev.next) = ","
            THEN ParseEvents(text, ev.next + 1, Append(acc, ev.val))
       ELSE Fail

\* ron::from_str::<Vec<SpawnEvent>>(text): Ok(events) or Err.
ron_from_str(text) ==
    IF Tok(text, 1) # "[" THEN Fail
    ELSE IF Tok(text, 2) = "]" /\ Len(text) = 2 THEN [ok |-> TRUE, val |-> <<>>, next |-> 3]
    ELSE ParseEvents(text, 2, <<>>)

-----------------------------------------------------------------------------
\* The live scene.

\* The components save_world and load_world read from an entity.
Entity(tracker, name, parent, transform) ==
    [tracker |-> tracker, name |-> name, parent |-> parent, transform |-> transform]

\* Query<(&SpawnTracker, &Name, Option<&Parent>, Option<&Transform>)> matches e.
InSpawnQuery(w, e) == e \in DOMAIN w /\ w[e].tracker # None /\ w[e].name # None

\* Query<Entity, With<SpawnTracker>> matches e.
InCurrentSpawnQuery(w, e) == e \in DOMAIN w /\ w[e].tracker # None

\* The entities a query yields, in iteration order.
SpawnQueryIter(w, ord) == SelectSeq(ord, LAMBDA e : InSpawnQuery(w, e))
CurrentSpawnQueryIter(w, ord) == SelectSeq(ord, LAMBDA e : InCurrentSpawnQuery(w, e))

\* ResolveParent without the comparison to the default name.
ResolveParent_any_name(w, e) ==
    LET parent == w[e].parent
    IN IF parent = None THEN None
       ELSE IF ~InSpawnQuery(w, parent[1]) THEN None
       ELSE Some(w[parent[1]].name[1])

\* Lines 112-119: the parent of e, looked up in the spawn query, by name, unless
\* the parent's name is the default name of the parent's kind.
ResolveParent(w, e) ==
    LET parent == w[e].parent
    IN IF parent = None THEN None
       ELSE IF ~InSpawnQuery(w, parent[1]) THEN None
       ELSE IF get_default_name(w[parent[1]].tracker[1]) # w[parent[1]].name[1]
            THEN Some(w[parent[1]].name[1])
            ELSE None

\* RecordOf without the entity's Transform: every record gets the default.
RecordOf_default_transform(w, e) ==
    [object    |-> w[e].tracker[1],
     transform |-> TransformDefault,
     name      |-> Some(w[e].name[1]),
     parent    |-> ResolveParent(w, e)]

\* Lines 120-125: the SpawnEvent recorded for entity e of the spawn query.
RecordOf(w, e) ==
    [object    |-> w[e].tracker[1],
     transform |-> IF w[e].transform = None THEN TransformDefault ELSE w[e].transform[1],
     name      |-> Some(w[e].name[1]),
     parent    |-> ResolveParent(w, e)]

\* Lines 109-127: one record per entity of the spawn query, in iteration order.
Objects(w, ord) ==
    LET q == SpawnQueryIter(w, ord)
    IN [i \in 1..Len(q) |-> RecordOf(w, q[i])]

serialize_world(w, ord) == ron_to_string(Objects(w, ord))

\* Lines 131-133: the parse result; ~ok is the panic of expect().
deserialize_world(text) == ron_from_str(text)

\* e and every entity below it in the hierarchy.
RECURSIVE IsUnder(_, _, _, _)
IsUnder(w, e, root, fuel) ==
    \/ e = root
    \/ /\ fuel > 0
       /\ e \in DOMAIN w
       /\ w[e].parent # None
       /\ IsUnder(w, w[e].parent[1], root, fuel - 1)

Subtree(w, root) == {e \in DOMAIN w : IsUnder(w, e, root, Cardinality(DOMAIN w))}

\* DespawnRecursive that leaves the descendants in place.
DespawnRecursive_shallow(w, root) == [e \in (DOMAIN w) \ {root} |-> w[e]]

\* despawn_recursive applied to the world: a no-op when the entity is gone.
DespawnRecursive(w, root) ==
    IF root \notin DOMAIN w THEN w
    ELSE [e \in (DOMAIN w) \ Subtree(w, root) |-> w[e]]

RECURSIVE ApplyEffects(_, _)
ApplyEffects(w, effs) ==
    IF effs = <<>> THEN w
    ELSE IF Head(effs).kind = "despawn_recursive"
         THEN ApplyEffects(DespawnRecursive(w, Head(effs).entity), Tail(effs))
         ELSE ApplyEffects(w, Tail(effs))

-----------------------------------------------------------------------------
\* The file system as the handlers see it.

\* try_exists with a failed test taken for "does not exist".
try_exists_err_free(fs, path, bad) == Some(path \in DOMAIN fs /\ path \notin bad)

\* fs::try_exists(path).ok(): None when the existence test itself fails.
try_exists(fs, path, bad) == IF path \in bad THEN None ELSE Some(path \in DOMAIN fs)

\* What the environment can do to a write: complete it, fail before the file is
\* created, or fail after creating it with only part of the text.
WriteOutcomes == {"ok", "create_failed", "short_empty", "short_half"}

\* fs::write(path, text) under a write outcome.
fs_write(fs, path, text, wr) ==
    IF wr = "create_failed" THEN fs
    ELSE LET written == IF wr = "ok" THEN text
                        ELSE IF wr = "short_empty" THEN <<>>
                        ELSE SubSeq(text, 1, Len(text) \div 2)
         IN [p \in (DOMAIN fs) \cup {path} |-> IF p = path THEN written ELSE fs[p]]

ReadOutcomes == {"ok", "io_error"}

\* fs::read_to_string(path): Ok(text), or Err for a missing file or a failed read.
read_to_string(fs, path, rd) ==
    IF path \notin DOMAIN fs THEN [ok |-> FALSE, val |-> <<>>, err |-> "NotFound"]
    ELSE IF rd # "ok" THEN [ok |-> FALSE, val |-> <<>>, err |-> "Io"]
    ELSE [ok |-> TRUE, val |-> fs[path], err |-> ""]

\* Every path a save of the model can probe.
ProbedPaths == {CandidatePath(scene, k) : scene \in SceneNames, k \in 1..PROBE_LIMIT}

\* The paths whose existence test fails: none, room, room-1, or every path.
UntestableChoices ==
    {{}, {CandidatePath(<<"room">>, 1)}, {CandidatePath(<<"room">>, 2)}, ProbedPaths}

-----------------------------------------------------------------------------
\* save_world, one request.

\* valid_candidates probing one candidate more.
valid_candidates_take11(fs, scene, bad) ==
    LET probed == [k \in 1..(PROBE_LIMIT + 1) |->
                      [path   |-> CandidatePath(scene, k),
                       exists |-> try_exists(fs, CandidatePath(scene, k), bad)]]
        kept   == SelectSeq(probed, LAMBDA c : c.exists # None)
    IN [i \in 1..Len(kept) |-> [path |-> kept[i].path, exists |-> kept[i].exists[1]]]

\* Lines 36-46: the first PROBE_LIMIT candidates, those whose test failed dropped.
valid_candidates(fs, scene, bad) ==
    LET probed == [k \in 1..PROBE_LIMIT |->
                      [path   |-> CandidatePath(scene, k),
                       exists |-> try_exists(fs, CandidatePath(scene, k), bad)]]
        kept   == SelectSeq(probed, LAMBDA c : c.exists # None)
    IN [i \in 1..Len(kept) |-> [path |-> kept[i].path, exists |-> kept[i].exists[1]]]

\* first_free without the filter on existence.
first_free_existing(cands) ==
    IF cands = <<>> THEN None ELSE Some(cands[1].path)

\* first_free taking the last free candidate.
first_free_last(cands) ==
    LET free == SelectSeq(cands, LAMBDA c : ~c.exists)
    IN IF free = <<>> THEN None ELSE Some(free[Len(free)].path)

\* Lines 50-53: the first valid candidate that does not exist.
first_free(cands) ==
    LET free == SelectSeq(cands, LAMBDA c : ~c.exists)
    IN IF free = <<>> THEN None ELSE Some(free[1].path)

Report(level, op, scene, what) == [level |-> level, op |-> op, scene |-> scene, what |-> what]

\* Lines 47-69: the reports of one save request.
SaveReports(scene, cands, target, wr) ==
    IF cands = <<>> THEN <<Report("error", "save", scene, <<"Invalid path">>)>>
    ELSE IF target = None
         THEN <<Report("error", "save", scene, <<"Already got too many saves with this name">>)>>
         ELSE (IF wr = "ok" THEN <<>> ELSE <<Report("error", "save", scene, <<"io">>)>>)
              \o <<Report("info", "save", scene, target[1])>>

\* Lines 47-69: the files after one save request.
SaveFiles(fs, target, text, wr) ==
    IF target = None THEN fs ELSE fs_write(fs, target[1], text, wr)

\* QueryView with the commands queued in this stage already applied.
QueryView_commands_applied(w, effs) == ApplyEffects(w, effs)

\* What spawn_query sees: commands queued by load_world in the same stage are
\* applied only at the end of the stage, so the query sees the world without them.
QueryView(w, effs) == w

HandleSave ==
    /\ ~crashed
    /\ save_requests # <<>>
    /\ \E wr \in WriteOutcomes :
          LET scene  == Head(save_requests)
              cands  == valid_candidates(files, scene, untestable)
              target == first_free(cands)
          IN /\ files' = SaveFiles(files, target,
                                       serialize_world(QueryView(world, effects), order), wr)
             /\ log' = log \o SaveReports(scene, cands, target, wr)
    /\ save_requests' = Tail(save_requests)
    /\ phase' = "run"
    /\ UNCHANGED <<untestable, world, order, load_requests, effects, crashed, sent>>

-----------------------------------------------------------------------------
\* load_world, one request.

\* LoadEffects with the events sent before the despawns are queued.
LoadEffects_spawn_first(w, ord, events) ==
    LET q == CurrentSpawnQueryIter(w, ord)
    IN [i \in 1..Len(events) |-> [kind |-> "spawn", event |-> events[i]]]
       \o [i \in 1..Len(q) |-> [kind |-> "despawn_recursive", entity |-> q[i]]]

\* Lines 86-94: the instructions of a load that read and decoded its file: a
\* despawn_recursive per entity of the current spawn query, then the events.
LoadEffects(w, ord, events) ==
    LET q == CurrentSpawnQueryIter(w, ord)
    IN [i \in 1..Len(q) |-> [kind |-> "despawn_recursive", entity |-> q[i]]]
       \o [i \in 1..Len(events) |-> [kind |-> "spawn", event |-> events[i]]]

\* LoadPath reading the first numbered candidate, scene-1.
LoadPath_numbered(filename) == CandidatePath(filename, 2)

\* load_world reads the path of the requested name itself, without probing.
LoadPath(filename) == ScenePath(filename)

HandleLoad ==
    /\ ~crashed
    /\ load_requests # <<>>
    /\ \E rd \in ReadOutcomes :
          LET filename == Head(load_requests)
              path     == LoadPath(filename)
              read     == read_to_string(files, path, rd)
              parsed   == deserialize_world(read.val)
          IN IF ~read.ok
             THEN /\ log' = Append(log, Report("error", "load", filename, <<read.err>>))
                  /\ load_requests' = Tail(load_requests)
                  /\ phase' = "run"
                  /\ UNCHANGED <<effects, crashed>>
             ELSE IF ~parsed.ok
             THEN \* expect("Failed to deserialize world") panics
                  /\ crashed' = TRUE
                  /\ UNCHANGED <<log, load_requests, phase, effects>>
             ELSE /\ effects' = effects \o LoadEffects(world, order, parsed.val)
                  /\ log' = Append(log, Report("info", "load", filename, path))
                  /\ load_requests' = Tail(load_requests)
                  /\ phase' = "run"
                  /\ UNCHANGED crashed
    /\ UNCHANGED <<files, untestable, world, order, save_requests, sent>>

-----------------------------------------------------------------------------
\* The processing step around the two systems.

SendSave ==
    /\ ~crashed /\ phase = "idle" /\ sent < MaxRequests
    /\ \E scene \in SceneNames : save_requests' = Append(save_requests, scene)
    /\ sent' = sent + 1
    /\ UNCHANGED <<files, untestable, world, order, load_requests, effects, log, crashed, phase>>

SendLoad ==
    /\ ~crashed /\ phase = "idle" /\ sent < MaxRequests
    /\ \E scene \in SceneNames : load_requests' = Append(load_requests, scene)
    /\ sent' = sent + 1
    /\ UNCHANGED <<files, untestable, world, order, save_requests, effects, log, crashed, phase>>

\* The end of the step: both systems have read all their events, the queued
\* commands are applied and the spawn events are left to the spawn system.
EndStep ==
    /\ ~crashed /\ phase = "run"
    /\ save_requests = <<>> /\ load_requests = <<>>
    /\ world' = ApplyEffects(world, effects)
    /\ order' = SelectSeq(order, LAMBDA e : e \in DOMAIN ApplyEffects(world, effects))
    /\ effects' = <<>>
    /\ log' = <<>>
    /\ phase' = "idle"
    /\ UNCHANGED <<files, untestable, save_requests, load_requests, crashed, sent>>

Next == SendSave \/ SendLoad \/ HandleSave \/ HandleLoad \/ EndStep

-----------------------------------------------------------------------------
\* Initial states: a scene and the contents of assets/scenes.

\* A named Doorway "Level" without Transform; under it a Grass with its default
\* name; under that an entity that is no spawned object (no tracker, no name).
SceneNested ==
    <<Entity(Some("Doorway"), Some("Level"), None, None),
      Entity(Some("Grass"), Some("Grass"), Some(1), Some("Translate010")),
      Entity(None, None, Some(2), Some("Identity"))>>

\* A Grass with its default name; under it a Doorway named "Grass"; under that a
\* Grass that carries no Name.
SceneNames3 ==
    <<Entity(Some("Grass"), Some("Grass"), None, Some("Identity")),
      Entity(Some("Doorway"), Some("Grass"), Some(1), None),
      Entity(Some("Grass"), None, Some(2), Some("Translate010"))>>

MainScenes == {SceneNested, SceneNames3}

Ascending(n) == [i \in 1..n |-> i]

\* Texts a file of the directory can hold before the first request.
TextNested == serialize_world(SceneNested, Ascending(3))
TextEmptyList == ron_to_string(<<>>)
\* Not the text of a Vec<SpawnEvent>: empty, a field of the wrong type.
TextMismatch ==
    <<"[", "(", "object:", "Grass", ",", "transform:", Quote("Level"), ",",
      "name:", "None", ",", "parent:", "None", ")", "]">>
MalformedTexts == {<<>>, TextMismatch}

\* The first n candidates of a scene name exist, all holding text.
DirFirst(scene, n, text) ==
    [p \in {CandidatePath(scene, k) : k \in 1..n} |-> text]

\* room and room-2 exist, room-1 does not.
DirHole ==
    [p \in {CandidatePath(<<"room">>, 1), CandidatePath(<<"room">>, 3)} |-> TextEmptyList]

InitDirs ==
    {DirFirst(<<"room">>, n, TextNested) : n \in {0, 1, PROBE_LIMIT - 1, PROBE_LIMIT}}
    \cup {DirHole}
    \cup {DirFirst(<<"room">>, 1, t) : t \in MalformedTexts}

Init ==
    /\ files \in InitDirs
    /\ untestable \in UntestableChoices
    /\ world \in MainScenes
    /\ order = Ascending(Len(world))
    /\ save_requests = <<>>
    /\ load_requests = <<>>
    /\ effects = <<>>
    /\ log = <<>>
    /\ crashed = FALSE
    /\ phase = "idle"
    /\ sent = 0

Spec == Init /\ [][Next]_vars

-----------------------------------------------------------------------------
\* Generated scenes, and the save and load of one scene on a disk without faults.

Parents(i) == {None} \cup {Some(j) : j \in 1..(i - 1)}

\* The entities the i-th place of a generated scene can hold: an entity without
\* tracker (named or not), or a spawned object of either kind.
EntityChoices(i) ==
    {Entity(None, n, p, None) : n \in {None, Some("Level")}, p \in Parents(i)}
    \cup {Entity(Some(k), n, p, t) :
             k \in Kinds, n \in {None} \cup {Some(x) : x \in NameStrings},
             p \in Parents(i), t \in {None, Some("Translate010")}}

RECURSIVE ScenesOf(_)
ScenesOf(n) ==
    IF n = 0 THEN {<<>>}
    ELSE {Append(w, e) : w \in ScenesOf(n - 1), e \in EntityChoices(n)}

GeneratedScenes == UNION {ScenesOf(n) : n \in 1..MaxEntities}

\* No report of the step is an error.
FaultFree == \A i \in DOMAIN log : log[i].level = "info"

InitCodec ==
    /\ files = DirFirst(<<"room">>, 0, <<>>)
    /\ untestable = {}
    /\ world \in GeneratedScenes
    /\ order = Ascending(Len(world))
    /\ save_requests = << <<"room">> >>
    /\ load_requests = << <<"room">> >>
    /\ effects = <<>>
    /\ log = <<>>
    /\ crashed = FALSE
    /\ phase = "idle"
    /\ sent = MaxRequests

CodecSave == HandleSave /\ FaultFree'
CodecLoad == HandleLoad /\ FaultFree' /\ ~crashed'

NextCodec == CodecSave \/ CodecLoad \/ EndStep

SpecCodec == InitCodec /\ [][NextCodec]_vars

-----------------------------------------------------------------------------
\* Saves of "room" in a row, from an empty directory, on a disk without faults.

InitRepeat ==
    /\ files = DirFirst(<<"room">>, 0, <<>>)
    /\ untestable = {}
    /\ world \in MainScenes
    /\ order = Ascending(Len(world))
    /\ save_requests = <<>>
    /\ load_requests = <<>>
    /\ effects = <<>>
    /\ log = <<>>
    /\ crashed = FALSE
    /\ phase = "idle"
    /\ sent = 0

\* One more SaveRequest for "room".
RepeatSend ==
    /\ ~crashed /\ phase = "idle" /\ sent < MaxRepeat
    /\ save_requests' = Append(save_requests, <<"room">>)
    /\ sent' = sent + 1
    /\ UNCHANGED <<files, untestable, world, order, load_requests, effects, log, crashed, phase>>

\* save_world with fs::write returning Ok.
RepeatSave == HandleSave /\ \A i \in DOMAIN log' : log'[i].what # <<"io">>

NextRepeat == RepeatSend \/ RepeatSave \/ EndStep

SpecRepeat == InitRepeat /\ [][NextRepeat]_vars

-----------------------------------------------------------------------------
\* Steps, as the properties below name them.

\* A save request is handled.
SaveStep == save_requests # <<>> /\ save_requests' = Tail(save_requests)
\* A load request is handled to its end.
LoadStep == load_requests # <<>> /\ load_requests' = Tail(load_requests)
\* A system panics.
PanicStep == ~crashed /\ crashed'
\* The reports a handler step writes.
NewReports == SubSeq(log', Len(log) + 1, Len(log'))
\* The instructions a handler step issues.
NewEffects == SubSeq(effects', Len(effects) + 1, Len(effects'))

IsSaved(r) == r.op = "save" /\ r.level = "info"
IsLoaded(r) == r.op = "load" /\ r.level = "info"
Room == <<"room">>

-----------------------------------------------------------------------------
\* C1 (No-overwrite): a save request leaves every file that existed before it in
\* place with the same content, creates at most one file, and the path it
\* reports as saved was not a file before the request.
C1_NoOverwrite ==
    [][SaveStep =>
          /\ \A p \in DOMAIN files : p \in DOMAIN files' /\ files'[p] = files[p]
          /\ Cardinality((DOMAIN files') \ (DOMAIN files)) <= 1
          /\ \A i \in DOMAIN NewReports :
                IsSaved(NewReports[i]) => NewReports[i].what \notin DOMAIN files
          /\ \A p \in (DOMAIN files') \ (DOMAIN files) :
                \E i \in DOMAIN NewReports : IsSaved(NewReports[i]) /\ NewReports[i].what = p
      ]_vars

\* A save of "room" found room taken and wrote room-1 beside it.
C1_Witness ==
    \E i \in DOMAIN log :
        /\ IsSaved(log[i]) /\ log[i].scene = Room
        /\ log[i].what = CandidatePath(Room, 2)
        /\ CandidatePath(Room, 1) \in DOMAIN files
        /\ CandidatePath(Room, 2) \in DOMAIN files
        /\ files[CandidatePath(Room, 2)] = serialize_world(world, order)
        /\ files[CandidatePath(Room, 1)] # files[CandidatePath(Room, 2)]

\* C2 (Load atomicity), as claimed: a load that does not end in success, whether
\* it fails reading or decoding, writes one error report for its request, issues
\* no despawn and no spawn event, and leaves the live scene as it was.
C2_LoadAtomicity ==
    [][(load_requests # <<>> /\ (LoadStep \/ PanicStep)
        /\ ~(\E i \in DOMAIN NewReports : IsLoaded(NewReports[i])))
       => /\ Len(NewReports) = 1
          /\ NewReports[1].level = "error"
          /\ NewReports[1].op = "load"
          /\ NewReports[1].scene = Head(load_requests)
          /\ effects' = effects
          /\ world' = world
      ]_vars

\* C3 (Malformed input safety), as claimed: no text a load reads makes the
\* process crash.
C3_MalformedInputSafe == ~crashed

\* C4 (Allocator order): the path a save allocates is one of the candidates
\* scene, scene-1, ... that does not exist, and every candidate before it either
\* exists or could not be tested.
C4_AllocatorOrder ==
    [][SaveStep =>
          \A i \in DOMAIN NewReports :
              IsSaved(NewReports[i]) =>
                  \E k \in 1..PROBE_LIMIT :
                      /\ NewReports[i].what = CandidatePath(Head(save_requests), k)
                      /\ CandidatePath(Head(save_requests), k) \notin DOMAIN files
                      /\ \A j \in 1..(k - 1) :
                            \/ CandidatePath(Head(save_requests), j) \in DOMAIN files
                            \/ CandidatePath(Head(save_requests), j) \in untestable
      ]_vars

\* With room and room-2 taken and room-1 free, a save of "room" wrote room-1.
C4_Witness ==
    /\ untestable = {}
    /\ CandidatePath(Room, 3) \in DOMAIN files
    /\ files[CandidatePath(Room, 3)] = TextEmptyList
    /\ CandidatePath(Room, 4) \notin DOMAIN files
    /\ \E i \in DOMAIN log :
          IsSaved(log[i]) /\ log[i].scene = Room /\ log[i].what = CandidatePath(Room, 2)

\* C5 (Allocator bound): no save allocates a path beyond the tenth candidate;
\* with scene .. scene-8 taken and scene-9 free (all testable) the save allocates
\* scene-9; with scene .. scene-9 all taken it reports too many saves and the
\* files stay as they were.
C5_AllocatorBound ==
    [][SaveStep =>
          LET scene == Head(save_requests)
              Taken(k) == /\ CandidatePath(scene, k) \in DOMAIN files
                          /\ CandidatePath(scene, k) \notin untestable
          IN /\ \A i \in DOMAIN NewReports :
                    IsSaved(NewReports[i]) =>
                        \E k \in 1..10 : NewReports[i].what = CandidatePath(scene, k)
             /\ ((\A k \in 1..9 : Taken(k))
                   /\ CandidatePath(scene, 10) \notin (DOMAIN files) \cup untestable)
                => /\ NewReports # <<>>
                   /\ NewReports[Len(NewReports)] =
                          Report("info", "save", scene, CandidatePath(scene, 10))
             /\ (\A k \in 1..10 : Taken(k))
                => /\ NewReports = <<Report("error", "save", scene,
                                            <<"Already got too many saves with this name">>)>>
                   /\ files' = files
      ]_vars

\* In one step a save of "room" took room-9, the last candidate, and the next
\* save of "room" was refused, with room-10 still free.
C5_Witness ==
    /\ Len(log) >= 2
    /\ \E i \in DOMAIN log : \E j \in DOMAIN log :
          /\ i < j
          /\ log[i] = Report("info", "save", Room, CandidatePath(Room, 10))
          /\ log[j] = Report("error", "save", Room,
                             <<"Already got too many saves with this name">>)
    /\ CandidatePath(Room, 10) \in DOMAIN files
    /\ CandidatePath(Room, 11) \notin DOMAIN files

\* C6 (Load commit order): a load issues instructions only when its file was read
\* and decoded; it then issues one despawn_recursive per entity with a tracker,
\* all of them before the first spawn event, followed by one spawn event per
\* decoded record in the order of the file; applying the step's instructions
\* removes every despawned entity with everything under it.
C6_LoadCommitOrder ==
    [][/\ (load_requests # <<>> /\ (LoadStep \/ PanicStep)) =>
             LET path    == ScenePath(Head(load_requests))
                 tracked == {e \in DOMAIN world : world[e].tracker # None}
                 n       == Cardinality(tracked)
             IN IF \E i \in DOMAIN NewReports : IsLoaded(NewReports[i])
                THEN /\ path \in DOMAIN files
                     /\ deserialize_world(files[path]).ok
                     /\ LET events == deserialize_world(files[path]).val
                        IN /\ Len(NewEffects) = n + Len(events)
                           /\ \A i \in 1..n : NewEffects[i].kind = "despawn_recursive"
                           /\ {NewEffects[i].entity : i \in 1..n} = tracked
                           /\ \A i \in 1..Len(events) :
                                 NewEffects[n + i] = [kind |-> "spawn", event |-> events[i]]
                ELSE effects' = effects
       /\ (phase = "run" /\ phase' = "idle") =>
             \A i \in DOMAIN effects :
                 effects[i].kind = "despawn_recursive" =>
                     Subtree(world, effects[i].entity) \cap DOMAIN world' = {}
      ]_vars

\* A load has queued the despawn of the tracked entities and then sent the
\* events of a file with two records.
C6_Witness ==
    /\ \E i \in DOMAIN log : IsLoaded(log[i])
    /\ Len(effects) >= 4
    /\ effects[1].kind = "despawn_recursive"
    /\ effects[Len(effects)].kind = "spawn"
    /\ effects[Len(effects) - 1].kind = "spawn"
    /\ effects[Len(effects)].event # effects[Len(effects) - 1].event

\* The objects save_world records: the entities with a tracker and a Name.
Tracked == {e \in DOMAIN world : world[e].tracker # None /\ world[e].name # None}

\* The name the claims expect as parent of a tracked entity: the name of its
\* parent when the parent is tracked and not named as its kind is by default.
ExpectedParent(e) ==
    IF /\ world[e].parent # None
       /\ world[e].parent[1] \in Tracked
       /\ world[world[e].parent[1]].name[1] #
              get_default_name(world[world[e].parent[1]].tracker[1])
    THEN world[world[e].parent[1]].name
    ELSE None

\* The spawn events sent in this step, in order.
SpawnEvents ==
    LET sp == SelectSeq(effects, LAMBDA x : x.kind = "spawn")
    IN [i \in 1..Len(sp) |-> sp[i].event]

C8_ParentResolution ==
    \A i \in DOMAIN log :
        IsSaved(log[i]) =>
            LET parsed == deserialize_world(files[log[i].what])
                q      == SelectSeq(order, LAMBDA e : e \in Tracked)
            IN /\ parsed.ok
               /\ Len(parsed.val) = Len(q)
               /\ \A k \in DOMAIN q :
                     /\ parsed.val[k].parent = ExpectedParent(q[k])
                     /\ parsed.val[k].parent # None <=>
                           /\ world[q[k]].parent # None
                           /\ InSpawnQuery(world, world[q[k]].parent[1])
                           /\ world[world[q[k]].parent[1]].name[1] #
                                  get_default_name(world[world[q[k]].parent[1]].tracker[1])

\* A saved scene in which a tracked object sits under a spawned object that
\* carries no Name: its record has no parent.
C8_Witness ==
    /\ \E i \in DOMAIN log : IsSaved(log[i])
    /\ \E e \in Tracked :
          /\ world[e].parent # None
          /\ world[world[e].parent[1]].tracker # None
          /\ world[world[e].parent[1]].name = None

\* C9 (One outcome per request), as claimed: a request handled to its end writes
\* exactly one report, a failure or a success.
C9_OneOutcomePerRequest ==
    [][(SaveStep \/ LoadStep) => Len(NewReports) = 1]_vars

\* C10 (Untestable candidates): a save never allocates a path whose existence
\* could not be tested; it reports an invalid path, and writes nothing, exactly
\* when none of its ten candidates could be tested; and when some candidate is
\* testable and free it allocates the first such candidate.
C10_UntestableSkipped ==
    [][SaveStep =>
          LET scene    == Head(save_requests)
              Testable == {k \in 1..PROBE_LIMIT : CandidatePath(scene, k) \notin untestable}
              Free     == {k \in Testable : CandidatePath(scene, k) \notin DOMAIN files}
          IN /\ \A i \in DOMAIN NewReports :
                    IsSaved(NewReports[i]) => NewReports[i].what \notin untestable
             /\ (Testable = {}) <=>
                    (NewReports = <<Report("error", "save", scene, <<"Invalid path">>)>>)
             /\ (Testable = {}) => files' = files
             /\ (Free # {}) =>
                    \E i \in DOMAIN NewReports :
                        /\ IsSaved(NewReports[i])
                        /\ NewReports[i].what =
                               CandidatePath(scene, CHOOSE k \in Free : \A j \in Free : k <= j)
      ]_vars

\* The test of room failed while room did not exist: the save of "room" skipped
\* it and wrote room-1.
C10_Witness ==
    /\ untestable = {CandidatePath(Room, 1)}
    /\ CandidatePath(Room, 1) \notin DOMAIN files
    /\ \E i \in DOMAIN log :
          /\ IsSaved(log[i]) /\ log[i].scene = Room
          /\ log[i].what = CandidatePath(Room, 2)
          /\ log[i].what \in DOMAIN files

\* C11 (Save errors leave everything untouched), as claimed: a save request that
\* writes an error report, whatever the error, leaves the files with their
\* contents and the live scene as they were before the request.
C11_SaveErrorsUntouched ==
    [][(SaveStep /\ \E i \in DOMAIN NewReports : NewReports[i].level = "error")
       => /\ files' = files
          /\ world' = world
          /\ effects' = effects
      ]_vars

\* The save requests handled so far, when only saves are sent.
SavesHandled == sent - Len(save_requests)

\* C12 (Repeated saves): from an empty directory and with the scene unchanged,
\* after h saves of "room" the directory holds exactly room, room-1, ... up to
\* room-(h-1), at most ten files, all with the same text, the text of the scene;
\* the h-th save reported the h-th candidate as saved, for h <= 10, and every
\* later save reported too many saves.
C12_RepeatedSaves ==
    LET h == SavesHandled
        n == IF h <= 10 THEN h ELSE 10
        numbered(k) == <<"assets", "scenes", "room">>
                       \o (IF k = 1 THEN <<>> ELSE <<"-", Digit[k]>>) \o <<".scn.ron">>
    IN /\ DOMAIN files = {numbered(k) : k \in 1..n}
       /\ \A p \in DOMAIN files, q \in DOMAIN files : files[p] = files[q]
       /\ \A p \in DOMAIN files : files[p] = serialize_world(world, order)
       /\ (phase = "run" /\ h >= 1) =>
             /\ log # <<>>
             /\ log[Len(log)] =
                    IF h <= 10
                    THEN Report("info", "save", Room, numbered(h))
                    ELSE Report("error", "save", Room,
                                <<"Already got too many saves with this name">>)

\* Eleven saves of "room": ten files, room .. room-9, and the eleventh refused.
C12_Witness ==
    /\ SavesHandled = 11
    /\ phase = "run"
    /\ Cardinality(DOMAIN files) = 10
    /\ ScenePath(<<"room", "-", "9">>) \in DOMAIN files
    /\ log[Len(log)].level = "error"

\* C13 (Load reads the canonical path only): a load of a name reads
\* assets/scenes/<name>.scn.ron and no numbered candidate: when that file is
\* missing the load fails as not found, whatever numbered files exist, and issues
\* nothing; when the load succeeds it reports that path and sends the records of
\* that file.
C13_LoadCanonicalOnly ==
    [][(load_requests # <<>> /\ (LoadStep \/ PanicStep)) =>
          LET name == Head(load_requests)
              path == <<"assets", "scenes">> \o name \o <<".scn.ron">>
          IN /\ path \notin DOMAIN files =>
                   /\ NewReports = <<Report("error", "load", name, <<"NotFound">>)>>
                   /\ effects' = effects
             /\ (\E i \in DOMAIN NewReports : IsLoaded(NewReports[i])) =>
                   /\ path \in DOMAIN files
                   /\ NewReports = <<Report("info", "load", name, path)>>
                   /\ LET sp == SelectSeq(NewEffects, LAMBDA x : x.kind = "spawn")
                      IN [i \in 1..Len(sp) |-> sp[i].event]
                             = deserialize_world(files[path]).val
      ]_vars

\* A load of "room" failed as not found while room-1.scn.ron held a saved scene.
C13_Witness ==
    /\ ScenePath(Room) \notin DOMAIN files
    /\ ScenePath(<<"room", "-", "1">>) \in DOMAIN files
    /\ deserialize_world(files[ScenePath(<<"room", "-", "1">>)]).ok
    /\ \E i \in DOMAIN log : log[i] = Report("error", "load", Room, <<"NotFound">>)

\* C14 (Record completeness), as claimed: the file a save writes holds exactly
\* one record per object with a tracker, each with the object's kind, its
\* transform (the identity when it has none) and its name (absent when the object
\* has no Name); no object with a tracker is left out.
C14_RecordCompleteness ==
    \A i \in DOMAIN log :
        IsSaved(log[i]) =>
            LET parsed  == deserialize_world(files[log[i].what])
                tagged  == {e \in DOMAIN world : world[e].tracker # None}
            IN /\ parsed.ok
               /\ Len(parsed.val) = Cardinality(tagged)
               /\ \E f \in [DOMAIN parsed.val -> tagged] :
                     /\ \A j, k \in DOMAIN parsed.val : f[j] = f[k] => j = k
                     /\ \A j \in DOMAIN parsed.val :
                           /\ parsed.val[j].object = world[f[j]].tracker[1]
                           /\ parsed.val[j].transform =
                                  (IF world[f[j]].transform = None THEN "Identity"
                                   ELSE world[f[j]].transform[1])
                           /\ parsed.val[j].name = world[f[j]].name

\* C15 (Frame of the two handlers): a save request, handled with or without
\* success, issues no despawn and no spawn event and leaves the scene as it is; a
\* load request, whatever its end, leaves every file as it is and does not touch
\* the scene while it runs; instructions are issued only by a load that ends in
\* success; and the scene changes only where the instructions of such a load are
\* applied, losing exactly the entities with a tracker and everything under them.
C15_HandlerFrame ==
    [][/\ SaveStep => (effects' = effects /\ world' = world)
       /\ (load_requests # <<>> /\ (LoadStep \/ PanicStep)) =>
             (files' = files /\ world' = world)
       /\ (effects' # effects /\ effects' # <<>>) =>
             /\ LoadStep
             /\ \E i \in DOMAIN NewReports : IsLoaded(NewReports[i])
       /\ world' # world =>
             LET tagged  == {e \in DOMAIN world : world[e].tracker # None}
                 removed == UNION {Subtree(world, e) : e \in tagged}
             IN /\ phase = "run" /\ phase' = "idle"
                /\ \E i \in DOMAIN log : IsLoaded(log[i])
                /\ files' = files
                /\ DOMAIN world' = (DOMAIN world) \ removed
                /\ \A e \in DOMAIN world' : world'[e] = world[e]
      ]_vars

\* A load has been committed: the step is over and the scene has lost its
\* spawned objects together with the untracked entity under one of them.
C15_Witness ==
    /\ phase = "idle"
    /\ sent > 0
    /\ DOMAIN world = {}
    /\ effects = <<>>

\* The files as they were at the start of the step: the files of now without
\* those the saves of this step report as written (a save never overwrites).
StartFiles ==
    LET written == {log[i].what : i \in {j \in DOMAIN log : IsSaved(log[j])}}
    IN [p \in (DOMAIN files) \ written |-> files[p]]

\* C16 (Request independence under handler order), as claimed: the requests of a
\* step end as they would have ended had each been handled first, on the files of
\* the start of the step: a load reported as done read a file that was there at
\* the start of the step, and a load reported as not found asked for a file that
\* no save of the step has written.
C16_OrderIndependence ==
    \A i \in DOMAIN log :
        /\ IsLoaded(log[i]) => log[i].what \in DOMAIN StartFiles
        /\ (log[i].op = "load" /\ log[i].level = "error" /\ log[i].what = <<"NotFound">>)
               => ScenePath(log[i].scene) \notin DOMAIN files

\* C17 (Save snapshot): while the requests of a step are handled the scene stays
\* as it was at the start of the step, and a save that writes its file in full
\* writes the records of that scene, also when a load handled earlier in the step
\* has queued the despawn of every tracked entity.
C17_SaveSnapshot ==
    [][/\ (phase' = "run") => world' = world
       /\ SaveStep =>
             \A p \in (DOMAIN files') \ (DOMAIN files) :
                 \/ files'[p] = serialize_world(world, order)
                 \/ \E i \in DOMAIN NewReports : NewReports[i].level = "error"
      ]_vars

\* In one step a load replaced the scene and the save handled after it still
\* wrote both tracked objects of the scene the step started with.
C17_Witness ==
    /\ Len(log) = 2
    /\ IsLoaded(log[1])
    /\ IsSaved(log[2])
    /\ \E i \in DOMAIN effects : effects[i].kind = "despawn_recursive"
    /\ log[2].what \in DOMAIN files
    /\ deserialize_world(files[log[2].what]).ok
    /\ Len(deserialize_world(files[log[2].what]).val) = 2
    /\ files[log[2].what] = serialize_world(world, order)

\* C18 (Termination), as claimed: a request that has been received is handled to
\* its end, done or failed, in the step that received it, so that none is left
\* waiting in a process that has stopped; and a save looks at no more than ten
\* candidate paths, whatever exists or cannot be tested.
C18_Termination ==
    /\ (save_requests # <<>> \/ load_requests # <<>>) => ~crashed
    /\ \A scene \in SceneNames :
          Len(valid_candidates(files, scene, untestable)) <= PROBE_LIMIT

====
